---- MODULE Spec2Model ----
(***************************************************************************)
(* The alert / warning notification pipeline of PsychoPy:                  *)
(*   psychopy/alerts/Alerts.py   catalogue, AlertEntry, AlertLog,          *)
(*                               MasterLog (rotating log files),           *)
(*                               AlertLogger                               *)
(*   psychopy/warnings.py        warn() and _BaseErrorHandler              *)
(*   psychopy/app/pavlovia_ui/_base.py   ErrorHandler (installs itself)    *)
(*                                                                         *)
(* Four specifications share the variables:                                *)
(*   Spec     one process run of the alert pipeline, from its import       *)
(*   SpecConc the same run with AlertLogger.write calls interleaved with   *)
(*            the steps of a flush                                         *)
(*   SpecRot  many process runs, for the rotation of the log files         *)
(*   SpecErr  the standard-error takeover protocol and warn()              *)
(***************************************************************************)
EXTENDS Integers, Sequences, FiniteSets, TLC

\* ------------------------------------------------------------------ bounds
\* AlertLogger.write calls that append an entry, per process run (Spec)
MaxWrites == 3
\* failing MasterLog.write calls per process run (Spec)
MaxFail == 1
\* process runs in SpecRot
MaxRotRuns == 7
\* AlertLogger.write calls per process run in SpecRot
MaxRotWrites == 1

\* warn() and handler write() calls that add a record (SpecErr)
MaxErrs == 2

\* ------------------------------------------------------- program constants
\* MasterLog.__init__: "if len(logs) >= 5"
MaxLogFiles == 5

\* ------------------------------------------------------------------ inputs
\* no file
None == <<>>
\* "alertLogFile_{}.log".format(time.strftime("%Y.%m.%d.%H.%M.%S")) at second t
LogFileName(t) == <<"alertLogFile", t>>
LoggerNames == {"Builder", "Coder"}
Objs == {"TextComponent1"}
UnknownCode == 9999

\* alertsCatalogue.yml as loaded by AlertCatalogue.load: code -> entry
catalogue ==
    (2001 :> [code |-> 2001, cat |-> "Stimulus", msg |-> "m2001", url |-> "u2001"])
 @@ (2002 :> [code |-> 2002, cat |-> "Syntax", msg |-> "m2002", url |-> "u2002"])

AlertCodes == DOMAIN catalogue \cup {UnknownCode}

\* warnings.stdWarnings: code -> msg (the 'info' texts are not used by warn)
stdWarnings ==
    (1001 :> [msg |-> "Dropped a frame"])
 @@ (1002 :> [msg |-> "The stimulus you tried to draw was incredibly small"])
 @@ (2001 :> [msg |-> "You have a constant variable"])
 @@ (2002 :> [msg |-> "Syntax error compiling"])
 @@ (3001 :> [msg |-> "Failed to load file"])

\* the arguments <<code, msg, trace>> warn() is called with: a known and an
\* unknown code, each with no message and with an override; no trace or a
\* custom one
WarnArgs ==
    { <<2002, "", <<>> >>,
      <<2002, "override", <<"custom frame">> >>,
      <<UnknownCode, "", <<>> >>,
      <<UnknownCode, "override", <<>> >> }
\* traceback.format_stack()[:-1] at the call of warn
CallStack == <<"caller frame">>

\* the handler objects, and the file-like standard error of the interpreter
Handlers == {"h1", "h2"}
Console == "console"
\* the value of handler attributes and history that are not set yet
Unset == "unset"
\* text written to sys.stderr by the exception machinery
Texts == {"Traceback"}

VARIABLES
    \* ---- file system and clock (outlive a process)
    folderExists,   \* MasterLog.logFolder exists
    logFiles,       \* the *.log files of logFolder: name -> sequence of lines
    clock,          \* wall clock in seconds; a file is named by its timestamp
    \* ---- the running process (module globals root, master)
    alertLogFile,   \* master.alertLogFile: name of this process's file, or None
    alertLog,       \* root.alertLog
    terminal,       \* what print() has sent to the terminal of this process
    lastCall,       \* the last call made and how it ended
    flushPc,        \* where a root.flush() in progress stands: "idle" (none),
                    \* "loop" (in the for loop), "exited" (loop left, before
                    \* the reset of line 81)
    flushIdx,       \* entries the list iterator of that flush has passed
    \* ---- history (not read by any operation)
    runs,           \* number of process runs started
    written,        \* <<name, code, obj>> of the writes of this run, in order
    ioFails,        \* failed MasterLog.write calls of this run
    deleted,        \* the file the last MasterLog.__init__ removed, or None
    \* ---- warnings.py
    sysStderr,      \* sys.stderr: Console or a handler
    made,           \* the handlers that have been constructed
    origErr,        \* handler -> self.origErr, Unset while there is no such attribute
    errList,        \* handler -> self.errList
    autoFlush,      \* handler -> self.autoFlush
    logLines,       \* what psychopy.logging received: <<level, text>>
    printed,        \* what the handlers' flush() printed
    errCall,        \* the last call made in warnings.py and how it ended
    \* ---- history (not read by any operation)
    nErrs,          \* records created by warn() / write() so far
    tgtBefore,      \* handler -> sys.stderr just before its latest setStdErr()
    chainBase,      \* handler -> sys.stderr just before the first setStdErr()
                    \*            of its current chain of installs
    stable          \* handler -> no one else changed sys.stderr since its
                    \*            latest setStdErr()

alertVars == <<folderExists, logFiles, clock, alertLogFile, alertLog, terminal,
               lastCall, flushPc, flushIdx, runs, written, ioFails, deleted>>

errVars == <<sysStderr, made, origErr, errList, autoFlush, logLines, printed,
             errCall, nErrs, tgtBefore, chainBase, stable>>

vars == <<alertVars, errVars>>

\* ----------------------------------------------------------- AlertEntry
\* AlertEntry.__init__ raises KeyError at catalogue.alert[code] for these
KnownCode(code) == code \in DOMAIN catalogue

\* (variant: the entry takes the name of one fixed logger)
AlertEntrySharedName(name, code, obj) ==
    [name |-> "Builder",
     code |-> catalogue[code].code,
     cat  |-> catalogue[code].cat,
     msg  |-> catalogue[code].msg,
     url  |-> catalogue[code].url,
     obj  |-> obj]

\* (variant: category and message are taken from each other's field)
AlertEntrySwapsCatMsg(name, code, obj) ==
    [name |-> name,
     code |-> catalogue[code].code,
     cat  |-> catalogue[code].msg,
     msg  |-> catalogue[code].cat,
     url  |-> catalogue[code].url,
     obj  |-> obj]

AlertEntry(name, code, obj) ==
    [name |-> name,
     code |-> catalogue[code].code,
     cat  |-> catalogue[code].cat,
     msg  |-> catalogue[code].msg,
     url  |-> catalogue[code].url,
     obj  |-> obj]

\* ------------------------------------------------------------- AlertLog
\* (variant: the new entry is put in front)
AlertLogWritePrepend(log, alert) == <<alert>> \o log

\* AlertLog.write: self.alertLog.append(alert)
AlertLogWrite(log, alert) == Append(log, alert)

\* the line AlertLog.flush formats for entry i:
\* "AlertLogger: {name} | Code: {code} | Category: {cat} | Message: {msg} | Component: {obj}"
FlushMsg(i) ==
    [AlertLogger |-> i.name, Code |-> i.code, Category |-> i.cat,
     Message |-> i.msg, Component |-> i.obj]

\* the lines of a flush, in the order of the for loop
FlushLines(log) == [k \in 1..Len(log) |-> FlushMsg(log[k])]

\* ------------------------------------------------------------ MasterLog
\* (variant: the file is opened with 'w', which truncates it)
MasterWriteTruncate(files, f, msg) ==
    IF f \in DOMAIN files
    THEN [files EXCEPT ![f] = <<msg>>]
    ELSE files @@ (f :> <<msg>>)

\* (variant: the file name is computed once, for the first timestamp)
MasterWriteFirstFile(files, f, msg) ==
    IF LogFileName(1) \in DOMAIN files
    THEN [files EXCEPT ![LogFileName(1)] = Append(@, msg)]
    ELSE files @@ (LogFileName(1) :> <<msg>>)

\* MasterLog.write: open(alertLogFile, 'a+') creates the file if it is missing
\* and appends msg + '\n'
MasterWrite(files, f, msg) ==
    IF f \in DOMAIN files
    THEN [files EXCEPT ![f] = Append(@, msg)]
    ELSE files @@ (f :> <<msg>>)

\* (variant: the file is opened once, before the loop)
MasterWriteAllOpenFirst(files, f, lines) ==
    IF f \in DOMAIN files
    THEN [files EXCEPT ![f] = @ \o lines]
    ELSE files @@ (f :> lines)

\* the master.write calls of the loop of AlertLog.flush, in order
RECURSIVE MasterWriteAll(_, _, _)
MasterWriteAll(files, f, lines) ==
    IF lines = <<>> THEN files
    ELSE MasterWriteAll(MasterWrite(files, f, Head(lines)), f, Tail(lines))

\* os.remove(log)
Remove(files, log) == [g \in DOMAIN files \ {log} |-> files[g]]

\* (variant: the process's own file is created by the constructor)
MasterLogInitCreatesFile(exists, files, t) ==
    LET touch(fs) == IF LogFileName(t) \in DOMAIN fs THEN fs
                     ELSE fs @@ (LogFileName(t) :> <<>>) IN
    IF ~exists
    THEN {[folderExists |-> TRUE, logFiles |-> touch(files),
           alertLogFile |-> LogFileName(t), deleted |-> None]}
    ELSE IF Cardinality(DOMAIN files) >= MaxLogFiles
         THEN {[folderExists |-> TRUE, logFiles |-> touch(Remove(files, first)),
                alertLogFile |-> LogFileName(t), deleted |-> first] : first \in DOMAIN files}
         ELSE {[folderExists |-> TRUE, logFiles |-> touch(files),
                alertLogFile |-> LogFileName(t), deleted |-> None]}

\* (variant: "len(logs) > 5", off by one)
MasterLogInitOffByOne(exists, files, t) ==
    IF ~exists
    THEN {[folderExists |-> TRUE, logFiles |-> files, alertLogFile |-> LogFileName(t),
           deleted |-> None]}
    ELSE IF Cardinality(DOMAIN files) > MaxLogFiles
         THEN {[folderExists |-> TRUE, logFiles |-> Remove(files, first),
                alertLogFile |-> LogFileName(t), deleted |-> first] : first \in DOMAIN files}
         ELSE {[folderExists |-> TRUE, logFiles |-> files, alertLogFile |-> LogFileName(t),
                deleted |-> None]}

\* (variant: every listed file is removed once there are five)
MasterLogInitRemovesAll(exists, files, t) ==
    IF ~exists
    THEN {[folderExists |-> TRUE, logFiles |-> files, alertLogFile |-> LogFileName(t),
           deleted |-> None]}
    ELSE IF Cardinality(DOMAIN files) >= MaxLogFiles
         THEN {[folderExists |-> TRUE, logFiles |-> [g \in {} |-> <<>>],
                alertLogFile |-> LogFileName(t), deleted |-> first] : first \in DOMAIN files}
         ELSE {[folderExists |-> TRUE, logFiles |-> files, alertLogFile |-> LogFileName(t),
                deleted |-> None]}

\* MasterLog.__init__ at time t: the outcomes, one per file that the
\* unordered listing logFolder.glob('*.log') can put first
MasterLogInit(exists, files, t) ==
    IF ~exists
    THEN {[folderExists |-> TRUE, logFiles |-> files, alertLogFile |-> LogFileName(t),
           deleted |-> None]}
    ELSE IF Cardinality(DOMAIN files) >= MaxLogFiles
         THEN {[folderExists |-> TRUE, logFiles |-> Remove(files, first),
                alertLogFile |-> LogFileName(t), deleted |-> first] : first \in DOMAIN files}
         ELSE {[folderExists |-> TRUE, logFiles |-> files, alertLogFile |-> LogFileName(t),
                deleted |-> None]}

\* ------------------------------------------------------------- actions
\* A new process imports the module: catalogue, root = AlertLog(),
\* master = MasterLog().  Two runs may start within the same second.
StartRun(maxRuns) ==
    /\ runs < maxRuns
    /\ \E t \in {clock, clock + 1} :
         /\ t >= 1
         /\ clock' = t
         /\ \E m \in MasterLogInit(folderExists, logFiles, t) :
              /\ folderExists' = m.folderExists
              /\ logFiles' = m.logFiles
              /\ alertLogFile' = m.alertLogFile
              /\ deleted' = m.deleted
    /\ alertLog' = <<>>
    /\ terminal' = <<>>
    /\ runs' = runs + 1
    /\ written' = <<>>
    /\ ioFails' = 0
    /\ lastCall' = [op |-> "import", res |-> "ok"]
    /\ flushPc' = "idle"
    /\ flushIdx' = 0
    /\ UNCHANGED errVars

\* (variant: an unknown code is reported on the terminal before the error)
LoggerWriteReports(name, code, obj, maxWrites) ==
    /\ alertLogFile # None
    /\ Len(written) < maxWrites
    /\ IF KnownCode(code)
       THEN /\ alertLog' = AlertLogWrite(alertLog, AlertEntry(name, code, obj))
            /\ written' = Append(written, <<name, code, obj>>)
            /\ lastCall' = [op |-> "write", res |-> "ok", code |-> code]
            /\ UNCHANGED terminal
       ELSE /\ UNCHANGED <<alertLog, written>>
            /\ terminal' = Append(terminal, [AlertLogger |-> name, Code |-> code,
                   Category |-> "", Message |-> "unknown", Component |-> obj])
            /\ lastCall' = [op |-> "write", res |-> "KeyError", code |-> code]
    /\ UNCHANGED <<folderExists, logFiles, clock, alertLogFile,
                   runs, ioFails, deleted, flushPc, flushIdx, errVars>>

\* AlertLogger(name).write(code, obj)
LoggerWrite(name, code, obj, maxWrites) ==
    /\ alertLogFile # None
    /\ Len(written) < maxWrites
    /\ IF KnownCode(code)
       THEN /\ alertLog' = AlertLogWrite(alertLog, AlertEntry(name, code, obj))
            /\ written' = Append(written, <<name, code, obj>>)
            /\ lastCall' = [op |-> "write", res |-> "ok", code |-> code]
       ELSE /\ UNCHANGED <<alertLog, written>>
            /\ lastCall' = [op |-> "write", res |-> "KeyError", code |-> code]
    /\ UNCHANGED <<folderExists, logFiles, clock, alertLogFile, terminal,
                   runs, ioFails, deleted, flushPc, flushIdx, errVars>>

\* (variant: the buffer is not reset after the loop)
FlushKeepsBuffer ==
    /\ alertLogFile # None
    /\ logFiles' = MasterWriteAll(logFiles, alertLogFile, FlushLines(alertLog))
    /\ terminal' = terminal \o FlushLines(alertLog)
    /\ lastCall' = [op |-> "flush", res |-> "ok", n |-> Len(alertLog)]
    /\ UNCHANGED <<folderExists, clock, alertLogFile, alertLog, runs, written,
                   ioFails, deleted, flushPc, flushIdx, errVars>>

\* AlertLogger.flush -> root.flush(), every master.write succeeding
Flush ==
    /\ alertLogFile # None
    /\ logFiles' = MasterWriteAll(logFiles, alertLogFile, FlushLines(alertLog))
    /\ terminal' = terminal \o FlushLines(alertLog)
    /\ alertLog' = <<>>
    /\ lastCall' = [op |-> "flush", res |-> "ok", n |-> Len(alertLog)]
    /\ UNCHANGED <<folderExists, clock, alertLogFile, runs, written, ioFails,
                   deleted, flushPc, flushIdx, errVars>>

\* root.flush() where master.write raises for the k-th entry (the file
\* cannot be opened or written): the exception leaves the loop, entries
\* 1..k-1 have reached both sinks and the reset of line 81 is not run
FlushFail ==
    /\ alertLogFile # None
    /\ ioFails < MaxFail
    /\ \E k \in 1..Len(alertLog) :
         /\ logFiles' = MasterWriteAll(logFiles, alertLogFile,
                                       SubSeq(FlushLines(alertLog), 1, k - 1))
         /\ terminal' = terminal \o SubSeq(FlushLines(alertLog), 1, k - 1)
    /\ ioFails' = ioFails + 1
    /\ lastCall' = [op |-> "flush", res |-> "IOError", n |-> Len(alertLog)]
    /\ UNCHANGED <<folderExists, clock, alertLogFile, alertLog, runs, written,
                   deleted, flushPc, flushIdx, errVars>>

\* ------------------------------------- root.flush() step by step (SpecConc)
\* "for i in self.alertLog": the iterator is taken on the list object
FlushBegin ==
    /\ alertLogFile # None
    /\ flushPc = "idle"
    /\ flushPc' = "loop"
    /\ flushIdx' = 0
    /\ UNCHANGED <<folderExists, logFiles, clock, alertLogFile, alertLog,
                   terminal, lastCall, runs, written, ioFails, deleted, errVars>>

\* (variant: the loop stops one entry early)
FlushNextStopsEarly ==
    /\ flushPc = "loop"
    /\ IF flushIdx + 1 < Len(alertLog)
       THEN /\ logFiles' = MasterWrite(logFiles, alertLogFile,
                                       FlushMsg(alertLog[flushIdx + 1]))
            /\ terminal' = Append(terminal, FlushMsg(alertLog[flushIdx + 1]))
            /\ flushIdx' = flushIdx + 1
            /\ UNCHANGED flushPc
       ELSE /\ flushPc' = "exited"
            /\ UNCHANGED <<logFiles, terminal, flushIdx>>
    /\ UNCHANGED <<folderExists, clock, alertLogFile, alertLog, lastCall, runs,
                   written, ioFails, deleted, errVars>>

\* one turn of the loop: the list iterator yields the next entry of the list
\* as it is now (entries appended meanwhile included), which is written to
\* the file and printed; or it finds no further entry and the loop is left
FlushNext ==
    /\ flushPc = "loop"
    /\ IF flushIdx < Len(alertLog)
       THEN /\ logFiles' = MasterWrite(logFiles, alertLogFile,
                                       FlushMsg(alertLog[flushIdx + 1]))
            /\ terminal' = Append(terminal, FlushMsg(alertLog[flushIdx + 1]))
            /\ flushIdx' = flushIdx + 1
            /\ UNCHANGED flushPc
       ELSE /\ flushPc' = "exited"
            /\ UNCHANGED <<logFiles, terminal, flushIdx>>
    /\ UNCHANGED <<folderExists, clock, alertLogFile, alertLog, lastCall, runs,
                   written, ioFails, deleted, errVars>>

\* "self.alertLog = []", and flush returns
FlushReset ==
    /\ flushPc = "exited"
    /\ alertLog' = <<>>
    /\ flushPc' = "idle"
    /\ flushIdx' = 0
    /\ lastCall' = [op |-> "flush", res |-> "ok", n |-> flushIdx]
    /\ UNCHANGED <<folderExists, logFiles, clock, alertLogFile, terminal, runs,
                   written, ioFails, deleted, errVars>>

\* ---------------------------------------------------------- warnings.py
\* (variant: the attribute name is misspelt in hasattr, which is then false)
HasReceiveWarningNever(target) == FALSE

\* hasattr(sys.stderr, 'receiveWarning'): true of handlers, not of the console
HasReceiveWarning(target) == target \in Handlers

\* (variant: the message is looked up whether or not an override is given)
WarnRaisesAlwaysLooksUp(code, msg) == code \notin DOMAIN stdWarnings

\* warn: "if not msg: msg = stdWarnings[code]['msg']" raises KeyError
WarnRaises(code, msg) == msg = "" /\ code \notin DOMAIN stdWarnings

WarnMsg(code, msg) == IF msg = "" THEN stdWarnings[code].msg ELSE msg

\* warn: "if not trace: trace = traceback.format_stack()[:-1]"
WarnTrace(trace) == IF trace = <<>> THEN CallStack ELSE trace

\* warn: warnStr = '%s: %s' %(code, msg)
WarnStr(code, msg) == <<code, ": ", msg>>

\* (variant: the entries of trace are not added)
TraceStrNoEntries(code, trace) == <<"Warning trace (", code, "):\n">>

\* warn: traceStr = 'Warning trace (%s):\n' %(code), then every entry of trace
TraceStr(code, trace) == <<"Warning trace (", code, "):\n">> \o trace

\* _BaseErrorHandler.receiveWarning
\* (variant: the record is put at the head of the list)
ReceiveWarningPrepends(list, code, obj, msg, trace) ==
    <<[code |-> code, obj |-> obj, msg |-> msg, trace |-> trace]>> \o list

ReceiveWarning(list, code, obj, msg, trace) ==
    Append(list, [code |-> code, obj |-> obj, msg |-> msg, trace |-> trace])

\* (variant: sys.stderr is replaced before it is remembered)
SetStdErrInstallsFirst(self) ==
    [stderr |-> self, origErr |-> [origErr EXCEPT ![self] = self]]

\* _BaseErrorHandler.setStdErr
SetStdErrOf(self) ==
    [stderr |-> self, origErr |-> [origErr EXCEPT ![self] = sysStderr]]

\* _BaseErrorHandler.unsetStdErr
\* (variant: the console is put back instead of the saved target)
UnsetStdErrToConsole(self) == IF self = sysStderr THEN Console ELSE sysStderr

\* (variant: the saved target is put back whoever is the current target)
UnsetStdErrUnconditional(self) == origErr[self]

UnsetStdErrOf(self) ==
    IF self = sysStderr THEN origErr[self] ELSE sysStderr

\* history kept when handler self makes sys.stderr become target
StableAfter(self, target) ==
    [g \in Handlers |-> IF g = self \/ target = sysStderr THEN stable[g] ELSE FALSE]

\* _BaseErrorHandler() : __init__ alone
NewBaseHandler(h) ==
    /\ h \notin made
    /\ made' = made \cup {h}
    /\ errList' = [errList EXCEPT ![h] = <<>>]
    /\ autoFlush' = [autoFlush EXCEPT ![h] = TRUE]
    /\ errCall' = [op |-> "init", h |-> h, res |-> "ok"]
    /\ UNCHANGED <<sysStderr, origErr, logLines, printed, nErrs, tgtBefore,
                   chainBase, stable>>
    /\ UNCHANGED alertVars

\* handler.setStdErr()
SetStdErr(h) ==
    /\ h \in made
    /\ sysStderr' = SetStdErrOf(h).stderr
    /\ origErr' = SetStdErrOf(h).origErr
    /\ tgtBefore' = [tgtBefore EXCEPT ![h] = sysStderr]
    /\ chainBase' = IF sysStderr = h THEN chainBase
                    ELSE [chainBase EXCEPT ![h] = sysStderr]
    /\ stable' = [StableAfter(h, h) EXCEPT ![h] = TRUE]
    /\ errCall' = [op |-> "setStdErr", h |-> h, res |-> "ok"]
    /\ UNCHANGED <<made, errList, autoFlush, logLines, printed, nErrs>>
    /\ UNCHANGED alertVars

\* ErrorHandler() of pavlovia_ui: __init__ of the base class, then setStdErr()
NewErrorHandler(h) ==
    /\ h \notin made
    /\ made' = made \cup {h}
    /\ errList' = [errList EXCEPT ![h] = <<>>]
    /\ autoFlush' = [autoFlush EXCEPT ![h] = TRUE]
    /\ sysStderr' = SetStdErrOf(h).stderr
    /\ origErr' = SetStdErrOf(h).origErr
    /\ tgtBefore' = [tgtBefore EXCEPT ![h] = sysStderr]
    /\ chainBase' = [chainBase EXCEPT ![h] = sysStderr]
    /\ stable' = [StableAfter(h, h) EXCEPT ![h] = TRUE]
    /\ errCall' = [op |-> "ErrorHandler", h |-> h, res |-> "ok"]
    /\ UNCHANGED <<logLines, printed, nErrs>>
    /\ UNCHANGED alertVars

\* handler.unsetStdErr()
UnsetStdErr(h) ==
    /\ h \in made
    /\ sysStderr' = UnsetStdErrOf(h)
    /\ stable' = StableAfter(h, UnsetStdErrOf(h))
    /\ errCall' = [op |-> "unsetStdErr", h |-> h, res |-> "ok"]
    /\ UNCHANGED <<made, origErr, errList, autoFlush, logLines, printed, nErrs,
                   tgtBefore, chainBase>>
    /\ UNCHANGED alertVars

\* warn(code, obj, msg, trace)
Warn(code, obj, msg, trace) ==
    /\ nErrs < MaxErrs
    /\ IF WarnRaises(code, msg)
       THEN /\ errCall' = [op |-> "warn", code |-> code, msg |-> msg,
                           trace |-> trace, res |-> "KeyError"]
            /\ UNCHANGED <<errList, logLines, nErrs>>
       ELSE /\ errCall' = [op |-> "warn", code |-> code, msg |-> msg,
                           trace |-> trace, res |-> "ok"]
            /\ nErrs' = nErrs + 1
            /\ IF HasReceiveWarning(sysStderr)
               THEN /\ errList' = [errList EXCEPT ![sysStderr] =
                           ReceiveWarning(@, code, obj, WarnMsg(code, msg),
                                          WarnTrace(trace))]
                    /\ UNCHANGED logLines
               ELSE /\ logLines' = logLines \o
                           << <<"warning", WarnStr(code, WarnMsg(code, msg))>>,
                              <<"debug", TraceStr(code, WarnTrace(trace))>> >>
                    /\ UNCHANGED errList
    /\ UNCHANGED <<sysStderr, made, origErr, autoFlush, printed, tgtBefore,
                   chainBase, stable>>
    /\ UNCHANGED alertVars

\* handler.flush(): print every record, then self.errList = []
HandlerFlush(h) ==
    /\ h \in made
    /\ printed' = printed \o errList[h]
    /\ errList' = [errList EXCEPT ![h] = <<>>]
    /\ errCall' = [op |-> "flush", h |-> h, res |-> "ok"]
    /\ UNCHANGED <<sysStderr, made, origErr, autoFlush, logLines, nErrs,
                   tgtBefore, chainBase, stable>>
    /\ UNCHANGED alertVars

\* handler.__del__(): self.flush(), then self.unsetStdErr()
Del(h) ==
    /\ h \in made
    /\ printed' = printed \o errList[h]
    /\ errList' = [errList EXCEPT ![h] = <<>>]
    /\ sysStderr' = UnsetStdErrOf(h)
    /\ stable' = StableAfter(h, UnsetStdErrOf(h))
    /\ errCall' = [op |-> "del", h |-> h, res |-> "ok"]
    /\ UNCHANGED <<made, origErr, autoFlush, logLines, nErrs, tgtBefore,
                   chainBase>>
    /\ UNCHANGED alertVars

\* (variant: write only appends, whatever autoFlush says)
HandlerWriteNeverFlushes(h, toWrite) ==
    /\ h \in made
    /\ nErrs < MaxErrs
    /\ nErrs' = nErrs + 1
    /\ errList' = [errList EXCEPT ![h] = Append(@, [text |-> toWrite])]
    /\ errCall' = [op |-> "write", h |-> h, res |-> "ok"]
    /\ UNCHANGED <<sysStderr, made, origErr, autoFlush, logLines, printed,
                   tgtBefore, chainBase, stable>>
    /\ UNCHANGED alertVars

\* handler.write(toWrite): append, and flush when self.autoFlush
HandlerWrite(h, toWrite) ==
    /\ h \in made
    /\ nErrs < MaxErrs
    /\ nErrs' = nErrs + 1
    /\ IF autoFlush[h]
       THEN /\ printed' = printed \o Append(errList[h], [text |-> toWrite])
            /\ errList' = [errList EXCEPT ![h] = <<>>]
       ELSE /\ errList' = [errList EXCEPT ![h] = Append(@, [text |-> toWrite])]
            /\ UNCHANGED printed
    /\ errCall' = [op |-> "write", h |-> h, res |-> "ok"]
    /\ UNCHANGED <<sysStderr, made, origErr, autoFlush, logLines, tgtBefore,
                   chainBase, stable>>
    /\ UNCHANGED alertVars

\* handler.autoFlush = b
SetAutoFlush(h, b) ==
    /\ h \in made
    /\ autoFlush[h] # b
    /\ autoFlush' = [autoFlush EXCEPT ![h] = b]
    /\ errCall' = [op |-> "autoFlush", h |-> h, res |-> "ok"]
    /\ UNCHANGED <<sysStderr, made, origErr, errList, logLines, printed, nErrs,
                   tgtBefore, chainBase, stable>>
    /\ UNCHANGED alertVars

\* warnings.py imported, no handler constructed: sys.stderr is the console
InitErr ==
    /\ sysStderr = Console
    /\ made = {}
    /\ origErr = [h \in Handlers |-> Unset]
    /\ errList = [h \in Handlers |-> <<>>]
    /\ autoFlush = [h \in Handlers |-> TRUE]
    /\ logLines = <<>>
    /\ printed = <<>>
    /\ errCall = [op |-> "none", res |-> "ok"]
    /\ nErrs = 0
    /\ tgtBefore = [h \in Handlers |-> Unset]
    /\ chainBase = [h \in Handlers |-> Unset]
    /\ stable = [h \in Handlers |-> FALSE]

\* before the first process run: a fresh installation, no alertLogs folder
InitRot ==
    /\ InitErr
    /\ folderExists = FALSE
    /\ logFiles = [f \in {} |-> <<>>]
    /\ clock = 0
    /\ alertLogFile = None
    /\ alertLog = <<>>
    /\ terminal = <<>>
    /\ lastCall = [op |-> "none", res |-> "ok"]
    /\ flushPc = "idle"
    /\ flushIdx = 0
    /\ runs = 0
    /\ written = <<>>
    /\ ioFails = 0
    /\ deleted = None

\* the first process has imported the module: root = AlertLog(),
\* master = MasterLog() on the fresh installation
Init ==
    /\ InitErr
    /\ clock = 1
    /\ \E m \in MasterLogInit(FALSE, [f \in {} |-> <<>>], clock) :
         /\ folderExists = m.folderExists
         /\ logFiles = m.logFiles
         /\ alertLogFile = m.alertLogFile
         /\ deleted = m.deleted
    /\ alertLog = <<>>
    /\ terminal = <<>>
    /\ lastCall = [op |-> "import", res |-> "ok"]
    /\ flushPc = "idle"
    /\ flushIdx = 0
    /\ runs = 1
    /\ written = <<>>
    /\ ioFails = 0

Next ==
    \/ \E name \in LoggerNames, code \in AlertCodes, obj \in Objs :
         LoggerWrite(name, code, obj, MaxWrites)
    \/ Flush
    \/ FlushFail

Spec == Init /\ [][Next]_vars

\* another thread calls AlertLogger.write between the steps of a flush
NextConc ==
    \/ \E name \in LoggerNames, obj \in Objs :
         LoggerWrite(name, 2001, obj, MaxWrites)
    \/ FlushBegin
    \/ FlushNext
    \/ FlushReset

SpecConc == Init /\ [][NextConc]_vars

NextRot ==
    \/ StartRun(MaxRotRuns)
    \/ LoggerWrite("Builder", 2001, "TextComponent1", MaxRotWrites)
    \/ Flush

SpecRot == InitRot /\ [][NextRot]_vars

NextErr ==
    \/ \E h \in Handlers : NewBaseHandler(h)
    \/ \E h \in Handlers : NewErrorHandler(h)
    \/ \E h \in Handlers : SetStdErr(h)
    \/ \E h \in Handlers : UnsetStdErr(h)
    \/ \E a \in WarnArgs : Warn(a[1], None, a[2], a[3])
    \/ \E h \in Handlers : HandlerFlush(h)
    \/ \E h \in Handlers : Del(h)
    \/ \E h \in Handlers, t \in Texts : HandlerWrite(h, t)
    \/ \E h \in Handlers, b \in BOOLEAN : SetAutoFlush(h, b)

SpecErr == InitRot /\ [][NextErr]_vars

\* ======================================================== properties
\* this process's log file as the sequence of its lines
CurFile(files) == IF alertLogFile \in DOMAIN files THEN files[alertLogFile] ELSE <<>>

\* what a line says about the write that caused it
Attr(line) == <<line.AlertLogger, line.Code, line.Component>>

\* the lines ls are what the writes start+1, start+2, ... of this run ask for
InWriteOrder(ls, start) ==
    /\ start + Len(ls) <= Len(written)
    /\ \A k \in 1..Len(ls) : Attr(ls[k]) = written[start + k]

\* the part of sequence new that follows old
Added(old, new) == SubSeq(new, Len(old) + 1, Len(new))

\* C1: every flush emits the buffered entries to the MasterLog file and to
\* the terminal in the order in which they were written: the lines a flush
\* adds to either sink are those of the oldest unflushed writes, oldest first.
C1_FlushKeepsWriteOrder ==
    [][lastCall'.op = "flush" =>
         LET start == Len(written) - Len(alertLog) IN
         /\ start >= 0
         /\ InWriteOrder(Added(terminal, terminal'), start)
         /\ InWriteOrder(Added(CurFile(logFiles), CurFile(logFiles')), start)
         /\ SubSeq(terminal', 1, Len(terminal)) = terminal
         /\ SubSeq(CurFile(logFiles'), 1, Len(CurFile(logFiles))) = CurFile(logFiles)
      ]_vars

\* a flush has returned after emitting two different entries
C1_Witness ==
    /\ lastCall.op = "flush"
    /\ lastCall.res = "ok"
    /\ lastCall.n >= 2
    /\ Len(terminal) >= 2
    /\ terminal[Len(terminal) - 1] # terminal[Len(terminal)]

\* C2: when flush returns, the buffer is empty and each entry that was
\* buffered when it started has added exactly one line to the MasterLog file
\* and exactly one line to the terminal.
C2_FlushEmitsEachOnce ==
    [][(lastCall'.op = "flush" /\ lastCall'.res = "ok") =>
         /\ alertLog' = <<>>
         /\ Len(terminal') = Len(terminal) + Len(alertLog)
         /\ Len(CurFile(logFiles')) = Len(CurFile(logFiles)) + Len(alertLog)
         /\ \A k \in 1..Len(alertLog) :
              LET e == <<alertLog[k].name, alertLog[k].code, alertLog[k].obj>> IN
              /\ Attr(terminal'[Len(terminal) + k]) = e
              /\ Attr(CurFile(logFiles')[Len(CurFile(logFiles)) + k]) = e
      ]_vars

\* one write of code 2001 by logger "Builder", flushed: one line, empty buffer
C2_Witness ==
    /\ lastCall.op = "flush"
    /\ lastCall.res = "ok"
    /\ lastCall.n = 1
    /\ alertLog = <<>>
    /\ Len(terminal) = 1
    /\ Attr(terminal[1]) = <<"Builder", 2001, "TextComponent1">>
    /\ Len(CurFile(logFiles)) = 1

\* C3: a flush of an empty buffer writes nothing to any log file, prints
\* nothing and leaves the buffer empty.
C3_EmptyFlushEmitsNothing ==
    [][(lastCall'.op = "flush" /\ alertLog = <<>>) =>
         /\ logFiles' = logFiles
         /\ terminal' = terminal
         /\ alertLog' = <<>>
      ]_vars

\* a flush of the empty buffer, after an earlier flush that emitted something
C3_Witness ==
    /\ lastCall.op = "flush"
    /\ lastCall.n = 0
    /\ terminal # <<>>
    /\ alertLog = <<>>

\* C4: AlertLogger.write with a code that is not in the catalogue ends in
\* the unknown-code error (KeyError) and changes neither the buffer nor the
\* log files nor the terminal.
C4_UnknownCodeNoEffect ==
    [][(lastCall'.op = "write" /\ lastCall'.code \notin DOMAIN catalogue) =>
         /\ lastCall'.res = "KeyError"
         /\ alertLog' = alertLog
         /\ logFiles' = logFiles
         /\ terminal' = terminal
      ]_vars

\* an unknown code was refused while entries were buffered
C4_Witness ==
    /\ lastCall.op = "write"
    /\ lastCall.res = "KeyError"
    /\ lastCall.code = UnknownCode
    /\ alertLog # <<>>

\* ------------------------------------------------- rotation (SpecRot)
NumLogFiles == Cardinality(DOMAIN logFiles)

\* the sixth process run, whose MasterLog.__init__ found the five files that
\* the five runs before it left
SixthRunAfterFive == runs = 6 /\ deleted # None

\* C6 as stated: once the MasterLog of the 6th run is constructed the folder
\* holds exactly 5 files (one deleted, one created).
C6_FiveFilesAfterConstruction ==
    (SixthRunAfterFive /\ lastCall.op = "import") => NumLogFiles = 5

\* C6, amended: the construction of the 6th run's MasterLog deletes one file
\* and creates none, so exactly 4 files exist afterwards; the folder holds 5
\* again only once a flush of this run has written an entry, which creates
\* the run's file unless a remaining file already has its name.
C6_FourFilesAfterConstruction ==
    /\ [](SixthRunAfterFive =>
            /\ (lastCall.op = "import" => NumLogFiles = 4)
            /\ NumLogFiles \in {4, 5}
            /\ (NumLogFiles = 5 =>
                   /\ terminal # <<>>
                   /\ alertLogFile \in DOMAIN logFiles
                   /\ logFiles[alertLogFile] # <<>>))
    /\ [][(/\ SixthRunAfterFive
           /\ lastCall'.op = "flush"
           /\ lastCall'.n > 0
           /\ alertLogFile \notin DOMAIN logFiles) => NumLogFiles' = 5]_vars

\* the 6th run's MasterLog has just been constructed: 4 files
C6_Witness ==
    /\ SixthRunAfterFive
    /\ lastCall.op = "import"
    /\ NumLogFiles = 4
    /\ alertLogFile \notin DOMAIN logFiles

\* C7: over any sequence of process runs the log folder never holds more
\* than 5 log files.
C7_AtMostFiveFiles == NumLogFiles <= 5

\* a run after the fifth has flushed an entry and the folder holds 5 files
C7_Witness ==
    /\ runs >= 6
    /\ lastCall.op = "flush"
    /\ lastCall.n > 0
    /\ NumLogFiles = 5

\* C8 as stated: the file that rotation deletes is the oldest one of the
\* folder, so every file that is kept is newer than the deleted one.
C8_DeletesOldest ==
    (lastCall.op = "import" /\ deleted # None) =>
        \A f \in DOMAIN logFiles : deleted[2] < f[2]

\* ---------------------------------------------- warnings.py (SpecErr)
\* C5 as stated: warn() with a code that is not in stdWarnings always ends
\* in the unknown-code error and does nothing else.
C5_UnknownCodeAlwaysFails ==
    [][(errCall'.op = "warn" /\ errCall'.code \notin DOMAIN stdWarnings) =>
         /\ errCall'.res = "KeyError"
         /\ errList' = errList
         /\ logLines' = logLines
      ]_vars

\* C5, amended: warn() with a code that is not in stdWarnings and no override
\* message ends in the unknown-code error (KeyError) with no side effect: no
\* record reaches a handler and nothing is logged.  With an override message
\* the table is not consulted: the call succeeds and the warning is delivered
\* under the unknown code, to the installed handler or else to the log.
C5_UnknownCodeFailsWithoutOverride ==
    [][(errCall'.op = "warn" /\ errCall'.code \notin DOMAIN stdWarnings) =>
         IF errCall'.msg = ""
         THEN /\ errCall'.res = "KeyError"
              /\ errList' = errList
              /\ logLines' = logLines
              /\ printed' = printed
         ELSE /\ errCall'.res = "ok"
              /\ IF sysStderr \in Handlers
                 THEN /\ Len(errList'[sysStderr]) = Len(errList[sysStderr]) + 1
                      /\ errList'[sysStderr][Len(errList'[sysStderr])].code
                             = errCall'.code
                      /\ logLines' = logLines
                 ELSE /\ Len(logLines') = Len(logLines) + 2
                      /\ errList' = errList
      ]_vars

\* warn() with an unknown code and no message was refused while a handler
\* that already holds a record is installed
C5_Witness ==
    /\ errCall.op = "warn"
    /\ errCall.res = "KeyError"
    /\ errCall.code = UnknownCode
    /\ errCall.msg = ""
    /\ sysStderr \in Handlers
    /\ Len(errList[sysStderr]) = 1

\* handler h made the last call, unsetStdErr(), and nobody else has changed
\* sys.stderr since h's latest setStdErr()
UnsetAfterOwnSet(h) ==
    /\ errCall.op = "unsetStdErr"
    /\ errCall.h = h
    /\ stable[h]

\* C9: after setStdErr() and then unsetStdErr() of a handler, with no other
\* change of sys.stderr in between, sys.stderr is the target that was current
\* immediately before that setStdErr().
C9_UnsetRestoresTargetBeforeSet ==
    \A h \in Handlers : UnsetAfterOwnSet(h) => sysStderr = tgtBefore[h]

\* h1 installed itself over h2 and its unsetStdErr() has put h2 back
C9_Witness ==
    /\ UnsetAfterOwnSet("h1")
    /\ tgtBefore["h1"] = "h2"
    /\ sysStderr = "h2"

\* C10 as stated: however often setStdErr() is repeated on the handler that
\* is already sys.stderr, unsetStdErr() restores the target that was current
\* before the first install, and never the handler itself.
C10_ReentrantInstallRestoresFirstTarget ==
    \A h \in Handlers :
        UnsetAfterOwnSet(h) => (sysStderr = chainBase[h] /\ sysStderr # h)

\* the message and the trace a successful warn() call passes on
CalledMsg == IF errCall'.msg = "" THEN stdWarnings[errCall'.code].msg ELSE errCall'.msg
CalledTrace == IF errCall'.trace = <<>> THEN <<"caller frame">> ELSE errCall'.trace

\* C11: a warn() call that succeeds reaches exactly one destination.  When
\* sys.stderr has receiveWarning, that target gets exactly one record
\* {code, obj, msg, trace}, no other handler changes and nothing is logged;
\* otherwise no handler gets a record and the log gets the warning.
C11_WarnHasOneDestination ==
    [][(errCall'.op = "warn" /\ errCall'.res = "ok") =>
         IF sysStderr \in Handlers
         THEN /\ errList' = [errList EXCEPT ![sysStderr] =
                    Append(@, [code |-> errCall'.code, obj |-> None,
                               msg |-> CalledMsg, trace |-> CalledTrace])]
              /\ logLines' = logLines
              /\ printed' = printed
         ELSE /\ errList' = errList
              /\ Len(logLines') > Len(logLines)
              /\ printed' = printed
      ]_vars

\* warn() has handed its record to the installed handler; nothing is logged
C11_Witness ==
    /\ errCall.op = "warn"
    /\ errCall.res = "ok"
    /\ sysStderr \in Handlers
    /\ Len(errList[sysStderr]) = 1
    /\ errList[sysStderr][1].code = errCall.code
    /\ logLines = <<>>

\* C12: with the console as sys.stderr, warn(code) for a code of stdWarnings
\* adds exactly two log lines: first one of level warning whose text starts
\* with the code, then one of level debug whose text holds the code and the
\* entries of the traceback.
C12_WarnLogsWarningThenDebug ==
    [][(/\ errCall'.op = "warn"
        /\ errCall'.res = "ok"
        /\ errCall'.code \in DOMAIN stdWarnings
        /\ sysStderr \notin Handlers) =>
         LET n == Len(logLines) IN
         /\ Len(logLines') = n + 2
         /\ SubSeq(logLines', 1, n) = logLines
         /\ logLines'[n + 1][1] = "warning"
         /\ logLines'[n + 1][2][1] = errCall'.code
         /\ logLines'[n + 2][1] = "debug"
         /\ logLines'[n + 2][2][2] = errCall'.code
         /\ SubSeq(logLines'[n + 2][2], 4, Len(logLines'[n + 2][2])) = CalledTrace
      ]_vars

\* warn(2002) with no handler installed has logged its two lines
C12_Witness ==
    /\ errCall.op = "warn"
    /\ errCall.res = "ok"
    /\ errCall.code = 2002
    /\ errCall.msg = ""
    /\ sysStderr = Console
    /\ Len(logLines) = 2
    /\ logLines[1][1] = "warning"
    /\ logLines[2][1] = "debug"

\* C13: two loggers with different names write into the one shared AlertLog;
\* a flush (AlertLogger.flush of either logger is root.flush()) emits one line
\* per buffered entry of both loggers, in the order of the writes, and each
\* line carries the name of the logger whose write it comes from.
C13_SharedFlushAttributesLines ==
    [][(lastCall'.op = "flush" /\ lastCall'.res = "ok") =>
         LET start == Len(written) - Len(alertLog)
             newT  == Added(terminal, terminal')
             newF  == Added(CurFile(logFiles), CurFile(logFiles'))
         IN  /\ Len(newT) = Len(alertLog)
             /\ Len(newF) = Len(alertLog)
             /\ \A k \in 1..Len(alertLog) :
                  /\ newT[k].AlertLogger = written[start + k][1]
                  /\ newF[k].AlertLogger = written[start + k][1]
             /\ \A name \in LoggerNames :
                  (\E k \in 1..Len(alertLog) : written[start + k][1] = name)
                    => (\E j \in 1..Len(newT) : newT[j].AlertLogger = name)
      ]_vars

\* "Coder" then "Builder" wrote, and one flush emitted a line for each
C13_Witness ==
    /\ lastCall.op = "flush"
    /\ lastCall.res = "ok"
    /\ lastCall.n = 2
    /\ Len(terminal) = 2
    /\ terminal[1].AlertLogger = "Coder"
    /\ terminal[2].AlertLogger = "Builder"
    /\ Len(CurFile(logFiles)) = 2
    /\ CurFile(logFiles)[1].AlertLogger = "Coder"
    /\ CurFile(logFiles)[2].AlertLogger = "Builder"

\* C15 (as claimed): a flush during which the MasterLog file cannot be written
\* still returns normally, emits every buffered entry to the terminal and
\* leaves the buffer empty.
C15_FlushSurvivesIOFailure ==
    [][(lastCall'.op = "flush" /\ ioFails' > ioFails) =>
         /\ lastCall'.res = "ok"
         /\ Len(terminal') = Len(terminal) + Len(alertLog)
         /\ alertLog' = <<>>
      ]_vars

\* the write that buffered entry k of the buffer
WriteOf(k) == written[Len(written) - Len(alertLog) + k]

\* C17: every buffered entry (built by AlertEntry for a code of the
\* catalogue) has code, cat, msg and url equal to the fields of the catalogue
\* entry of the code that was written, the name of the writing logger and the
\* obj that was passed in.
C17_EntryMatchesCatalogue ==
    /\ Len(alertLog) <= Len(written)
    /\ \A k \in 1..Len(alertLog) :
         LET e == alertLog[k]
             w == WriteOf(k)
         IN  /\ w[2] \in DOMAIN catalogue
             /\ e.code = catalogue[w[2]].code
             /\ e.cat  = catalogue[w[2]].cat
             /\ e.msg  = catalogue[w[2]].msg
             /\ e.url  = catalogue[w[2]].url
             /\ e.name = w[1]
             /\ e.obj  = w[3]

\* logger "Coder" has just written code 2002 and the entry is in the buffer
C17_Witness ==
    /\ lastCall.op = "write"
    /\ lastCall.res = "ok"
    /\ Len(alertLog) >= 1
    /\ alertLog[Len(alertLog)].name = "Coder"
    /\ alertLog[Len(alertLog)].code = 2002
    /\ alertLog[Len(alertLog)].cat = catalogue[2002].cat
    /\ alertLog[Len(alertLog)].cat # catalogue[2002].msg

\* what the lines ls say about the writes that caused them
AttrSeq(ls) == [k \in 1..Len(ls) |-> Attr(ls[k])]

\* the writes whose entries wait in the buffer from position from + 1 on
Pending(from) ==
    [k \in 1..(Len(alertLog) - from) |->
       <<alertLog[from + k].name, alertLog[from + k].code, alertLog[from + k].obj>>]

\* C18: with write and flush called one after the other and no failure, the
\* lines of either sink are, at any time, those of the writes made before the
\* last flush, one line per write and in write order, and the buffer holds the
\* writes made since: an entry is emitted once, by the first flush after its
\* write, and by no later one.
C18_ExactlyOnceWhenSerialized ==
    ioFails = 0 =>
      /\ AttrSeq(terminal) \o Pending(0) = written
      /\ AttrSeq(CurFile(logFiles)) \o Pending(0) = written
      /\ (lastCall.op = "flush" => alertLog = <<>>)

\* two flushes have each emitted an entry, and a third entry waits
C18_Witness ==
    /\ ioFails = 0
    /\ lastCall.op = "write"
    /\ lastCall.res = "ok"
    /\ Len(written) = 3
    /\ Len(terminal) = 2
    /\ Len(alertLog) = 1
    /\ Attr(terminal[1]) # Attr(terminal[2])

\* C16 (as claimed): an entry written while a flush is in progress is emitted
\* by that flush or stays buffered: at any time every write is either on the
\* sinks or still ahead of the flush in the buffer, each once.
C16_WriteDuringFlushNeverLost ==
    /\ AttrSeq(terminal) \o Pending(flushIdx) = written
    /\ AttrSeq(CurFile(logFiles)) \o Pending(flushIdx) = written

\* sequence a can be obtained from b by leaving elements out
RECURSIVE IsSubseq(_, _)
IsSubseq(a, b) ==
    IF a = <<>> THEN TRUE
    ELSE IF b = <<>> THEN FALSE
    ELSE IF Head(a) = Head(b) THEN IsSubseq(Tail(a), Tail(b))
    ELSE IsSubseq(a, Tail(b))

\* C16 (amended): an entry written while the loop of a flush is still
\* iterating is emitted by that flush, in its write order; the loop ends only
\* when every entry then in the buffer has been emitted; an entry written
\* after the loop has ended and before the reset is removed by the reset
\* without being emitted; no entry is emitted twice.
C16_WriteDuringFlushLostOnlyAfterLoop ==
    /\ [](/\ IsSubseq(AttrSeq(terminal), written)
          /\ AttrSeq(CurFile(logFiles)) = AttrSeq(terminal)
          /\ flushIdx <= Len(alertLog)
          /\ SubSeq(AttrSeq(terminal), Len(terminal) - flushIdx + 1, Len(terminal))
               = SubSeq(Pending(0), 1, flushIdx))
    /\ [][/\ (flushPc = "loop" /\ flushPc' = "loop" /\ flushIdx' # flushIdx) =>
               /\ flushIdx' = flushIdx + 1
               /\ terminal' = Append(terminal, FlushMsg(alertLog[flushIdx + 1]))
               /\ Attr(terminal'[Len(terminal')]) = WriteOf(flushIdx + 1)
          /\ (flushPc = "loop" /\ flushPc' = "exited") =>
               flushIdx = Len(alertLog)
          /\ (flushPc = "exited" /\ flushPc' = "idle") =>
               /\ alertLog' = <<>>
               /\ terminal' = terminal
               /\ logFiles' = logFiles
         ]_vars

\* a flush has returned that emitted two entries, the second of them written
\* while it iterated, and removed a third, written after its loop had ended
C16_Witness ==
    /\ lastCall.op = "flush"
    /\ lastCall.n = 2
    /\ flushPc = "idle"
    /\ alertLog = <<>>
    /\ Len(written) = 3
    /\ Len(terminal) = 2
    /\ AttrSeq(terminal) = SubSeq(written, 1, 2)


\* C14 (as claimed): the teardown of a handler that is sys.stderr flushes its
\* records and then restores the previous target: afterwards its record list
\* is empty, what it held has been printed, and sys.stderr is the target that
\* was current before the handler was installed, not the handler.
C14_TeardownFlushesThenRestores ==
    [][(errCall'.op = "del" /\ sysStderr = errCall'.h) =>
         /\ errCall'.res = "ok"
         /\ errList'[errCall'.h] = <<>>
         /\ printed' = printed \o errList[errCall'.h]
         /\ sysStderr' = chainBase[errCall'.h]
         /\ sysStderr' # errCall'.h
      ]_vars

\* C19: unsetStdErr() of a handler that is not sys.stderr (never installed,
\* uninstalled already, or superseded by a handler installed later) leaves
\* sys.stderr and every saved target as they are.
C19_UnsetByNonCurrentIsNoOp ==
    [][(errCall'.op = "unsetStdErr" /\ sysStderr # errCall'.h) =>
         /\ sysStderr' = sysStderr
         /\ origErr' = origErr
      ]_vars

\* h2 installed itself over h1; unsetStdErr() of h1 has left h2 in place
C19_Witness ==
    /\ errCall.op = "unsetStdErr"
    /\ errCall.h = "h1"
    /\ sysStderr = "h2"
    /\ stable["h2"]
    /\ tgtBefore["h2"] = "h1"
    /\ origErr["h1"] = Console

\* C20 (as claimed): h1 installed itself over a target that is no handler,
\* then h2 installed itself over h1; once both have called unsetStdErr(), one
\* right after the other and in either order, sys.stderr is the target that
\* preceded h1 and neither handler.
C20_ChainUninstallLeavesNoHandler ==
    [][\A h1, h2 \in Handlers :
         ( /\ h1 # h2
           /\ tgtBefore[h2] = h1
           /\ tgtBefore[h1] \notin Handlers
           /\ stable[h2]
           /\ errCall.op = "unsetStdErr"
           /\ errCall'.op = "unsetStdErr"
           /\ {errCall.h, errCall'.h} = {h1, h2} )
         => (sysStderr' = tgtBefore[h1] /\ sysStderr' \notin Handlers)
      ]_vars


\* C20 (amended): h1 installed itself over a target that is no handler, then
\* h2 installed itself over h1, and both call unsetStdErr(), one right after
\* the other.  In reverse order of the installs (h2, then h1) the first call
\* makes h1 the target again and the second restores the target that
\* preceded h1.  In the other order the call of h1 does nothing, as h1 is not
\* the current target, and the call of h2 then puts h1 back: sys.stderr is
\* left on handler h1.
C20_ChainUninstallInReverseOrder ==
    [][\A h1, h2 \in Handlers :
         ( /\ h1 # h2
           /\ tgtBefore[h2] = h1
           /\ tgtBefore[h1] \notin Handlers
           /\ stable[h2]
           /\ errCall.op = "unsetStdErr"
           /\ errCall'.op = "unsetStdErr"
           /\ {errCall.h, errCall'.h} = {h1, h2} )
         => IF errCall.h = h2
            THEN sysStderr = h1 /\ sysStderr' = tgtBefore[h1]
            ELSE sysStderr = h2 /\ sysStderr' = h1
      ]_vars

\* h1 installed itself over the console, h2 over h1, and after the
\* unsetStdErr() of h1 the console is the target again
C20_Witness ==
    /\ errCall.op = "unsetStdErr"
    /\ errCall.h = "h1"
    /\ sysStderr = Console
    /\ tgtBefore["h1"] = Console
    /\ tgtBefore["h2"] = "h1"
    /\ origErr["h1"] = Console
    /\ origErr["h2"] = "h1"


\* C21: structured records accumulate until they are flushed.  A warn() that
\* reaches an installed handler adds its record at the end of that handler's
\* list, keeps the records already there, prints nothing and leaves every
\* other list alone; flush() of a handler prints its records in list order
\* after what was printed before and leaves its list empty.
C21_RecordsAccumulateUntilFlush ==
    [][/\ (errCall'.op = "warn" /\ errCall'.res = "ok" /\ sysStderr \in Handlers) =>
            /\ Len(errList'[sysStderr]) = Len(errList[sysStderr]) + 1
            /\ SubSeq(errList'[sysStderr], 1, Len(errList[sysStderr])) = errList[sysStderr]
            /\ errList'[sysStderr][Len(errList'[sysStderr])] =
                 [code |-> errCall'.code, obj |-> None,
                  msg |-> CalledMsg, trace |-> CalledTrace]
            /\ \A g \in Handlers \ {sysStderr} : errList'[g] = errList[g]
            /\ printed' = printed
       /\ (errCall'.op = "flush") =>
            /\ printed' = printed \o errList[errCall'.h]
            /\ errList' = [errList EXCEPT ![errCall'.h] = <<>>]
      ]_vars

\* two warn() calls reached handler h1, which held both records until its
\* flush() printed them in the order of the calls
C21_Witness ==
    /\ errCall.op = "flush"
    /\ errCall.h = "h1"
    /\ errList["h1"] = <<>>
    /\ Len(printed) = 2
    /\ "code" \in DOMAIN printed[1]
    /\ "code" \in DOMAIN printed[2]
    /\ printed[1].msg = stdWarnings[2002].msg
    /\ printed[2].msg = "override"

\* C22: a handler is constructed with autoFlush on.  write(text) with
\* autoFlush on appends the text and flushes: the records pending are printed
\* in list order, the text after them, and the list is empty afterwards.
\* With autoFlush off write(text) appends the text and prints nothing.
C22_WriteFlushesWhenAutoFlush ==
    [][/\ (errCall'.op \in {"init", "ErrorHandler"}) => autoFlush'[errCall'.h]
       /\ (errCall'.op = "write") =>
            \E t \in Texts :
              IF autoFlush[errCall'.h]
              THEN /\ errList'[errCall'.h] = <<>>
                   /\ printed' = printed \o errList[errCall'.h] \o <<[text |-> t]>>
              ELSE /\ errList'[errCall'.h] = Append(errList[errCall'.h], [text |-> t])
                   /\ printed' = printed
      ]_vars

\* a warning was pending on h1 when write() was called with autoFlush on: the
\* warning was printed, then the text, and the list is empty
C22_Witness ==
    /\ errCall.op = "write"
    /\ errCall.h = "h1"
    /\ autoFlush["h1"]
    /\ errList["h1"] = <<>>
    /\ Len(printed) = 2
    /\ "code" \in DOMAIN printed[1]
    /\ printed[2] = [text |-> "Traceback"]

\* C23: MasterLog.write only appends to the file of the current process.  A
\* flush adds one line per buffered entry at the end of that file, which it
\* creates if it does not exist yet, and changes no other file and no line
\* written earlier; the construction of a MasterLog creates no file and
\* changes the content of none; AlertLogger.write touches no file.
C23_MasterWriteAppendsOnly ==
    [][/\ (lastCall'.op = "flush") =>
            /\ alertLogFile' = alertLogFile
            /\ DOMAIN logFiles' = DOMAIN logFiles \cup
                  (IF alertLog # <<>> THEN {alertLogFile} ELSE {})
            /\ \A f \in DOMAIN logFiles \ {alertLogFile} : logFiles'[f] = logFiles[f]
            /\ CurFile(logFiles') = CurFile(logFiles) \o FlushLines(alertLog)
       /\ (lastCall'.op = "import") =>
            /\ DOMAIN logFiles' \subseteq DOMAIN logFiles
            /\ \A f \in DOMAIN logFiles' : logFiles'[f] = logFiles[f]
       /\ (lastCall'.op = "write") => logFiles' = logFiles
      ]_vars

\* the flush of a later run has created that run's file with its one line,
\* next to the file of an earlier run, which still holds its line
C23_Witness ==
    /\ runs >= 2
    /\ lastCall.op = "flush"
    /\ lastCall.n = 1
    /\ alertLogFile \in DOMAIN logFiles
    /\ Len(logFiles[alertLogFile]) = 1
    /\ \E f \in DOMAIN logFiles : f # alertLogFile /\ Len(logFiles[f]) = 1

\* C24: the construction of a MasterLog removes no file when the log folder
\* is missing (the folder is created) or holds fewer than 5 files, and
\* exactly one file when the folder holds 5 or more; it never removes more
\* than one.
C24_ConstructionDeletesAtMostOne ==
    [][(lastCall'.op = "import") =>
         LET gone == DOMAIN logFiles \ DOMAIN logFiles' IN
         /\ folderExists'
         /\ Cardinality(gone) =
              (IF folderExists /\ Cardinality(DOMAIN logFiles) >= MaxLogFiles
               THEN 1 ELSE 0)
         /\ (gone = {} => deleted' = None)
         /\ (gone # {} => gone = {deleted'})
      ]_vars

\* a construction that found the folder full has removed one file of five
C24_Witness ==
    /\ lastCall.op = "import"
    /\ deleted # None
    /\ deleted \notin DOMAIN logFiles
    /\ NumLogFiles = MaxLogFiles - 1

====
